---------------------------- MODULE Spec2Model ----------------------------
(***************************************************************************)
(* Model of package sitemap (polyglottis/sitemap): the page Buffer, the    *)
(* generation of the sitemaps by Router.GenerateSitemaps and the lazy      *)
(* handler sitemapHandler.ServeHTTP, with the sync.RWMutex they use.       *)
(*                                                                         *)
(* Strings are sequences of tokens; a token is a piece of text without     *)
(* special characters, or one special character, so that                   *)
(* html.EscapeString has something to change.                              *)
(***************************************************************************)
EXTENDS Integers, Sequences, FiniteSets, TLC

(***************************************************************************)
(* Bounds of the model.                                                    *)
(***************************************************************************)
\* Sitemap.IsFull compares with 50000 (src/sitemap.go:74); the model keeps
\* the comparison and scales the number down.
Capacity == 2
\* Largest number of Router.Register calls before the sitemaps are handled.
MaxStatic == 3
\* Largest number of Router.RegisterParam calls.
MaxParam == 2
\* Largest number of direct calls of Router.GenerateSitemaps by one thread.
MaxCalls == 1
\* Largest number of writes of a file that fail in one run.
MaxFaults == 1
\* Largest number of calls of AddEntry and Flush on a Buffer used by itself.
MaxOps == 6

(***************************************************************************)
(* Threads: goroutines serving one request each, and goroutines calling    *)
(* Router.GenerateSitemaps directly (any number of times).                 *)
(***************************************************************************)
Reqs == {"r1", "r2"}
Gens == {"g1"}
Threads == Reqs \cup Gens

(***************************************************************************)
(* Strings.                                                                *)
(***************************************************************************)
Digit(d) == <<"0", "1", "2", "3", "4", "5", "6", "7", "8", "9">>[d + 1]

RECURSIVE Itoa(_)
\* fmt's %d of a non-negative int.
Itoa(n) == IF n < 10 THEN <<Digit(n)>> ELSE Itoa(n \div 10) \o <<Digit(n % 10)>>

\* html.EscapeString on one character: the five it replaces.
EscapeToken(c) ==
    CASE c = "&"  -> "&amp;"
      [] c = "'"  -> "&#39;"
      [] c = "<"  -> "&lt;"
      [] c = ">"  -> "&gt;"
      [] c = "\"" -> "&#34;"
      [] OTHER    -> c

\* html.EscapeString(s)
EscapeString(s) == [i \in 1..Len(s) |-> EscapeToken(s[i])]

\* fmt.Sprintf(sitemap_pattern, n), sitemap_pattern = "sitemap_%d.xml"
SitemapName(n) == <<"sitemap_">> \o Itoa(n) \o <<".xml">>

IndexName == <<"sitemapindex.xml">>

(***************************************************************************)
(* What the application registers, in this order.  A static route is a    *)
(* pattern; a parameterized route is a pattern with one variable and an    *)
(* enumerator, modelled by the values its data holds, in order.            *)
(***************************************************************************)
StaticPool == << <<"/a">>, <<"/b", "&", "c">>, <<"/">> >>

ParamPool ==
    << [prefix |-> <<"/doc/">>, values |-> <<"A", "B">>],
       [prefix |-> <<"/t/">>,   values |-> <<"C">>] >>

\* The variable of the patterns is {id:[A-Z]+}: mux.Route.URL accepts a value
\* made of capital letters and reports an error for any other.  The data of
\* an enumerator may hold, in the place of any value, one that is rejected.
ValidValues == {"A", "B", "C"}
BadValue == "1"

\* mux.Route.URL(pairs...) followed by URL.String(): the pattern with the
\* variable replaced, or an error when the value does not match.
RouteURL(prefix, v) ==
    [err |-> v \notin ValidValues, url |-> prefix \o <<v>>]

(***************************************************************************)
(* Sitemap and Buffer.                                                     *)
(***************************************************************************)
\* (*Sitemap)(nil) and NewSitemap()
NilSitemap == [nil |-> TRUE, Entries |-> <<>>]
NewSitemap == [nil |-> FALSE, Entries |-> <<>>]

IsEmpty(s) == s.nil \/ Len(s.Entries) = 0

\* IsFull that lets a page take one entry more.
IsFull_Late(s) == IF s.nil THEN FALSE ELSE Len(s.Entries) > Capacity

IsFull(s) == IF s.nil THEN FALSE ELSE Len(s.Entries) >= Capacity

NewBuffer == [sitemap |-> NilSitemap, count |-> 0, Locations |-> <<>>]

\* The ways a write of a file ends: written; os.Create fails and the file
\* is untouched; os.Create has truncated the file and the write fails.
Outcomes == {"ok", "create_fails", "write_fails"}

\* A file: whether its write completed, and its data.
File(data, complete) == [complete |-> complete, data |-> data]

Put(d, name, f) ==
    [n \in DOMAIN d \cup {name} |-> IF n = name THEN f ELSE d[n]]

\* writeToFileXML(data, outFileName): the files afterwards, the error, and
\* (bookkeeping) the names of the files it has created or truncated.
writeToFileXML(d, name, data, outcome) ==
    CASE outcome = "ok" ->
           [disk |-> Put(d, name, File(data, TRUE)), err |-> FALSE, created |-> {name}]
      [] outcome = "create_fails" ->
           [disk |-> d, err |-> TRUE, created |-> {}]
      [] OTHER ->
           [disk |-> Put(d, name, File(<<>>, FALSE)), err |-> TRUE, created |-> {name}]

\* Flush that gives up the page when its write fails.
Flush_DropsPageOnError(b, d, outcome) ==
    IF ~IsEmpty(b.sitemap)
    THEN LET count    == b.count + 1
             location == SitemapName(count)
             w        == writeToFileXML(d, location, b.sitemap.Entries, outcome)
         IN  IF w.err
             THEN [b |-> [b EXCEPT !.count = count, !.sitemap = NilSitemap],
                   disk |-> w.disk, err |-> TRUE, created |-> w.created]
             ELSE [b |-> [sitemap |-> NilSitemap, count |-> count,
                          Locations |-> Append(b.Locations, location)],
                   disk |-> w.disk, err |-> FALSE, created |-> w.created]
    ELSE [b |-> [b EXCEPT !.sitemap = NilSitemap], disk |-> d, err |-> FALSE,
          created |-> {}]

\* Flush that numbers and writes a page with no entry too.
Flush_WritesEmpty(b, d, outcome) ==
    LET count    == b.count + 1
        location == SitemapName(count)
        w        == writeToFileXML(d, location, b.sitemap.Entries, outcome)
    IN  IF w.err
        THEN [b |-> [b EXCEPT !.count = count], disk |-> w.disk, err |-> TRUE,
              created |-> w.created]
        ELSE [b |-> [sitemap |-> NilSitemap, count |-> count,
                     Locations |-> Append(b.Locations, location)],
              disk |-> w.disk, err |-> FALSE, created |-> w.created]

\* Buffer.Flush
Flush(b, d, outcome) ==
    IF ~IsEmpty(b.sitemap)
    THEN LET count    == b.count + 1
             location == SitemapName(count)
             w        == writeToFileXML(d, location, b.sitemap.Entries, outcome)
         IN  IF w.err
             THEN [b |-> [b EXCEPT !.count = count], disk |-> w.disk, err |-> TRUE,
                   created |-> w.created]
             ELSE [b |-> [sitemap |-> NilSitemap, count |-> count,
                          Locations |-> Append(b.Locations, location)],
                   disk |-> w.disk, err |-> FALSE, created |-> w.created]
    ELSE [b |-> [b EXCEPT !.sitemap = NilSitemap], disk |-> d, err |-> FALSE,
          created |-> {}]

\* AddEntry that does not flush a full page.
AddEntry_NoFlush(b, d, e, outcome) ==
    LET s == IF b.sitemap.nil THEN NewSitemap ELSE b.sitemap
    IN  [b |-> [b EXCEPT !.sitemap = [s EXCEPT !.Entries = Append(@, e)]],
         disk |-> d, err |-> FALSE, created |-> {}]

\* Buffer.AddEntry
AddEntry(b, d, e, outcome) ==
    LET f  == IF IsFull(b.sitemap) THEN Flush(b, d, outcome)
                                   ELSE [b |-> b, disk |-> d, err |-> FALSE,
                                         created |-> {}]
        s  == IF f.b.sitemap.nil THEN NewSitemap ELSE f.b.sitemap
    IN  IF f.err
        THEN f
        ELSE [b |-> [f.b EXCEPT !.sitemap = [s EXCEPT !.Entries = Append(@, e)]],
              disk |-> f.disk, err |-> FALSE, created |-> f.created]


(***************************************************************************)
(* sync.RWMutex, as far as the package uses it: the inner mutex w and      *)
(* readerCount, which is the number of readers, minus rwmutexMaxReaders    *)
(* while a writer has announced itself.                                    *)
(*   w       : rw.w is locked                                              *)
(*   writer  : readerCount < 0                                             *)
(*   readers : the readers counted in readerCount                          *)
(***************************************************************************)
NewRWMutex == [w |-> FALSE, writer |-> FALSE, readers |-> 0]

\* RLock returns only when no writer is announced.
CanRLock(m) == ~m.writer
RLock(m) == [m EXCEPT !.readers = @ + 1]

\* RUnlock of a mutex no reader holds is a fatal error of the runtime
\* ("sync: RUnlock of unlocked RWMutex").
RUnlockFatal(m) == m.readers = 0
RUnlock(m) == [m EXCEPT !.readers = @ - 1]

\* Lock returns once rw.w is free and the readers have left.
CanLock(m) == ~m.w /\ m.readers = 0
Lock(m) == [m EXCEPT !.w = TRUE, !.writer = TRUE]

Unlock(m) == [m EXCEPT !.w = FALSE, !.writer = FALSE]

(***************************************************************************)
(* State.                                                                  *)
(***************************************************************************)
VARIABLES
    phase,          \* "init", "setup" until Router.HandleSitemaps, then "run"
    Options,        \* Router.Options
    staticEntries,  \* Router.staticEntries
    paramEntries,   \* Router.paramEntries
    sitemapMutex,   \* Router.sitemapMutex
    fileHandler,    \* sitemapHandler.fileHandler # nil
    disk,           \* the files of Options.CachePath, by relative name
    pc,             \* where each thread is
    req,            \* per request: the locals of ServeHTTP
    gen,            \* per thread: the locals of GenerateSitemaps
    crashed,        \* the process has ended with a fatal error
    calls,          \* per thread of Gens: its calls of GenerateSitemaps so far
    faults,         \* the writes of a file that have failed so far
    lastSet,        \* the list returned by the last generation that succeeded
    buf,            \* a Buffer an application uses by itself
    store,          \* the files of the cachePath of buf, by relative name
    added,          \* the entries whose AddEntry on buf returned nil, in order
    ops,            \* the number of calls of AddEntry and Flush on buf so far
    plain,          \* so far no Flush was called on buf and no write failed
    last            \* the last call on buf, the buffer before it, its result

\* The variables of the router and its handler.
routerVars == <<phase, Options, staticEntries, paramEntries, sitemapMutex,
                fileHandler, disk, pc, req, gen, crashed, calls, faults, lastSet>>

\* The variables of the Buffer used by itself.
bufVars == <<buf, store, added, ops, plain, last>>

vars == <<phase, Options, staticEntries, paramEntries, sitemapMutex, fileHandler,
          disk, pc, req, gen, crashed, calls, faults, lastSet,
          buf, store, added, ops, plain, last>>

\* The locals of one ServeHTTP call.
\*   mutex   : the variable mutex, a copy of Router.sitemapMutex
\*   how     : (bookkeeping) "none"; "found" once os.Open has found
\*             sitemapindex.xml; "called" once the call has called
\*             GenerateSitemaps, "ok"/"err" once that has returned
\*   served  : "none", or what the file server answered: "200" with a whole
\*             file, "partial" with a file whose write did not complete, "404"
\*   late    : (bookkeeping) fileHandler was set when the call began
NewReq == [mutex |-> NewRWMutex, how |-> "none", served |-> "none",
           late |-> FALSE]

\* The locals of one GenerateSitemaps call.
\*   buffer  : the Buffer;  i, j, k : the positions of the three loops
\*   err     : the error being returned;  files : the list being returned
\*   invoked : how often each Enumerator has been called (bookkeeping)
\*   written : the names of the files this call has created (bookkeeping)
\*   failed  : something this call has called reported an error (bookkeeping)
NoGen == [buffer |-> NewBuffer, i |-> 1, j |-> 1, k |-> 1, err |-> FALSE,
          files |-> <<>>, invoked |-> <<>>, written |-> {}, failed |-> FALSE]
NewGen == [NoGen EXCEPT !.invoked = [x \in 1..Len(paramEntries) |-> 0]]

\* DefaultOptions and NewRouter(router, domain, localPath)
NewOptions == [ServerPath |-> <<"/">>, DefaultPriority |-> "0.5",
               Domain |-> <<"http://x">>]

\* The server path the application chooses for the sitemaps.
ServerPaths == {<<"/s", "&", "/">>}

\* No call on buf yet.
NoCall == [op |-> "none", before |-> NewBuffer, err |-> FALSE, created |-> {}]

Init ==
    /\ phase = "init"
    /\ Options = NewOptions
    /\ staticEntries = <<>>
    /\ paramEntries = <<>>
    /\ sitemapMutex = NewRWMutex
    /\ fileHandler = FALSE
    /\ disk = <<>>
    /\ pc = [t \in Threads |-> "idle"]
    /\ req = [r \in Reqs |-> NewReq]
    /\ gen = [t \in Threads |-> NoGen]
    /\ crashed = FALSE
    /\ calls = [t \in Gens |-> 0]
    /\ faults = 0
    /\ lastSet = <<>>
    /\ buf = NewBuffer
    /\ store = <<>>
    /\ added = <<>>
    /\ ops = 0
    /\ plain = TRUE
    /\ last = NoCall

(***************************************************************************)
(* Setting up the router.                                                  *)
(***************************************************************************)
\* r.Options.ServerPath = base, the first thing the application does with
\* its router.
SetServerPath ==
    /\ phase = "init"
    /\ phase' = "setup"
    /\ \E p \in ServerPaths : Options' = [Options EXCEPT !.ServerPath = p]
    /\ UNCHANGED bufVars
    /\ UNCHANGED <<staticEntries, paramEntries, sitemapMutex, fileHandler,
                   disk, pc, req, gen, crashed, calls, faults, lastSet>>

\* Router.Register(pattern); the application registers the routes of
\* StaticPool in order.
Register ==
    /\ phase = "setup"
    /\ paramEntries = <<>>
    /\ Len(staticEntries) < MaxStatic
    /\ LET pattern == StaticPool[(Len(staticEntries) % Len(StaticPool)) + 1]
       IN  staticEntries' = Append(staticEntries,
               [Location |-> pattern, Priority |-> Options.DefaultPriority])
    /\ UNCHANGED bufVars
    /\ UNCHANGED <<phase, Options, paramEntries, sitemapMutex, fileHandler,
                   disk, pc, req, gen, crashed, calls, faults, lastSet>>

\* Router.RegisterParam(pattern, enum)
RegisterParam ==
    /\ phase = "setup"
    /\ Len(paramEntries) < MaxParam
    /\ LET p == ParamPool[(Len(paramEntries) % Len(ParamPool)) + 1]
       IN  paramEntries' = Append(paramEntries,
               [Route |-> p.prefix, Priority |-> Options.DefaultPriority,
                Enumerator |-> p.values])
    /\ UNCHANGED bufVars
    /\ UNCHANGED <<phase, Options, staticEntries, sitemapMutex, fileHandler,
                   disk, pc, req, gen, crashed, calls, faults, lastSet>>

\* Router.HandleSitemaps: the handler exists, requests and calls may come.
HandleSitemaps ==
    /\ phase = "setup"
    /\ phase' = "run"
    /\ UNCHANGED bufVars
    /\ UNCHANGED <<Options, staticEntries, paramEntries, sitemapMutex, fileHandler,
                   disk, pc, req, gen, crashed, calls, faults, lastSet>>

\* Router.fullLocation(absPath)
fullLocation(absPath) == Options.Domain \o EscapeString(absPath)

Entry(location, priority) == [Location |-> location, Priority |-> priority]

(***************************************************************************)
(* Router.GenerateSitemaps, one action per step that other threads can     *)
(* observe.  A thread of Gens calls it directly; a request calls it from   *)
(* ServeHTTP.  In both cases pc goes g_lock, g_static, g_param, g_enum,    *)
(* g_flush, g_index, g_return.                                             *)
(***************************************************************************)
InGeneration(t) == pc[t] \in {"g_static", "g_param", "g_enum", "g_flush",
                              "g_index", "g_return"}

Alive == phase = "run" /\ ~crashed

\* A direct call of GenerateSitemaps.
GenCall(t) ==
    /\ Alive
    /\ t \in Gens
    /\ pc[t] = "idle"
    /\ calls[t] < MaxCalls
    /\ calls' = [calls EXCEPT ![t] = @ + 1]
    /\ pc' = [pc EXCEPT ![t] = "g_lock"]
    /\ UNCHANGED bufVars
    /\ UNCHANGED <<phase, Options, staticEntries, paramEntries, sitemapMutex,
                   fileHandler, disk, req, gen, crashed, faults, lastSet>>

\* GenLock without the wait for the lock.
GenLock_NoLock(t) ==
    /\ Alive
    /\ pc[t] = "g_lock"
    /\ sitemapMutex' = Lock(sitemapMutex)
    /\ gen' = [gen EXCEPT ![t] = NewGen]
    /\ pc' = [pc EXCEPT ![t] = "g_static"]
    /\ UNCHANGED bufVars
    /\ UNCHANGED <<phase, Options, staticEntries, paramEntries, fileHandler,
                   disk, req, crashed, calls, faults, lastSet>>

\* r.sitemapMutex.Lock(); defer r.sitemapMutex.Unlock(); NewBuffer(...)
GenLock(t) ==
    /\ Alive
    /\ pc[t] = "g_lock"
    /\ CanLock(sitemapMutex)
    /\ sitemapMutex' = Lock(sitemapMutex)
    /\ gen' = [gen EXCEPT ![t] = NewGen]
    /\ pc' = [pc EXCEPT ![t] = "g_static"]
    /\ UNCHANGED bufVars
    /\ UNCHANGED <<phase, Options, staticEntries, paramEntries, fileHandler,
                   disk, req, crashed, calls, faults, lastSet>>

\* How a write can end, if there is one: writes := TRUE.
OutcomesOf(writes) ==
    IF writes /\ faults < MaxFaults THEN Outcomes ELSE {"ok"}

\* The count of failed writes after a write that ended with outcome.
Faults(outcome) == IF outcome = "ok" THEN faults ELSE faults + 1

\* for _, entry := range r.staticEntries { buffer.AddEntry(...) }
\* The error AddEntry returns is dropped.
GenStatic(t) ==
    /\ Alive
    /\ pc[t] = "g_static"
    /\ LET g == gen[t] IN
       IF g.i <= Len(staticEntries)
       THEN \E outcome \in OutcomesOf(IsFull(g.buffer.sitemap)) :
              LET entry == staticEntries[g.i]
                  a == AddEntry(g.buffer, disk,
                                Entry(fullLocation(entry.Location), entry.Priority),
                                outcome)
              IN  /\ gen' = [gen EXCEPT ![t].buffer = a.b, ![t].i = g.i + 1,
                                        ![t].written = @ \cup a.created,
                                        ![t].failed = @ \/ a.err]
                  /\ disk' = a.disk
                  /\ faults' = Faults(outcome)
                  /\ pc' = pc
       ELSE /\ pc' = [pc EXCEPT ![t] = "g_param"]
            /\ UNCHANGED <<gen, disk, faults>>
    /\ UNCHANGED bufVars
    /\ UNCHANGED <<phase, Options, staticEntries, paramEntries, sitemapMutex,
                   fileHandler, req, crashed, calls, lastSet>>

\* GenParam that leaves the loop after the first enumerator.
GenParam_OnlyFirst(t) ==
    /\ Alive
    /\ pc[t] = "g_param"
    /\ LET g == gen[t] IN
       IF g.j <= Len(paramEntries) /\ g.j <= 1
       THEN /\ gen' = [gen EXCEPT ![t].k = 1, ![t].invoked[g.j] = @ + 1]
            /\ pc' = [pc EXCEPT ![t] = "g_enum"]
       ELSE /\ pc' = [pc EXCEPT ![t] = "g_flush"]
            /\ gen' = gen
    /\ UNCHANGED bufVars
    /\ UNCHANGED <<phase, Options, staticEntries, paramEntries, sitemapMutex,
                   fileHandler, disk, req, crashed, calls, faults, lastSet>>

\* for _, entry := range r.paramEntries { err := entry.Enumerator(...) }
GenParam(t) ==
    /\ Alive
    /\ pc[t] = "g_param"
    /\ LET g == gen[t] IN
       IF g.j <= Len(paramEntries)
       THEN /\ gen' = [gen EXCEPT ![t].k = 1, ![t].invoked[g.j] = @ + 1]
            /\ pc' = [pc EXCEPT ![t] = "g_enum"]
       ELSE /\ pc' = [pc EXCEPT ![t] = "g_flush"]
            /\ gen' = gen
    /\ UNCHANGED bufVars
    /\ UNCHANGED <<phase, Options, staticEntries, paramEntries, sitemapMutex,
                   fileHandler, disk, req, crashed, calls, faults, lastSet>>

\* The enumerator reports an error of its own: if err != nil { return nil, err }
EnumFails(t) ==
    /\ Alive
    /\ pc[t] = "g_enum"
    /\ gen' = [gen EXCEPT ![t].err = TRUE, ![t].failed = TRUE]
    /\ pc' = [pc EXCEPT ![t] = "g_return"]
    /\ UNCHANGED bufVars
    /\ UNCHANGED <<phase, Options, staticEntries, paramEntries, sitemapMutex,
                   fileHandler, disk, req, crashed, calls, faults, lastSet>>

\* The enumerator calls the callback with its next value, returns the error
\* the callback returns, or returns nil after its last value.
GenEnum(t) ==
    /\ Alive
    /\ pc[t] = "g_enum"
    /\ LET g == gen[t]
           entry == paramEntries[g.j]
       IN
       IF g.k <= Len(entry.Enumerator)
       THEN \E v \in {entry.Enumerator[g.k], BadValue} :
            LET route == RouteURL(entry.Route, v) IN
            IF route.err
            THEN /\ gen' = [gen EXCEPT ![t].err = TRUE, ![t].failed = TRUE]
                 /\ pc' = [pc EXCEPT ![t] = "g_return"]
                 /\ UNCHANGED <<disk, faults>>
            ELSE \E outcome \in OutcomesOf(IsFull(g.buffer.sitemap)) :
                   LET a == AddEntry(g.buffer, disk,
                                     Entry(fullLocation(route.url), entry.Priority),
                                     outcome)
                   IN  /\ disk' = a.disk
                       /\ faults' = Faults(outcome)
                       /\ gen' = [gen EXCEPT ![t].buffer = a.b, ![t].err = a.err,
                                             ![t].k = g.k + 1,
                                             ![t].written = @ \cup a.created,
                                             ![t].failed = @ \/ a.err]
                       /\ pc' = [pc EXCEPT ![t] = IF a.err THEN "g_return" ELSE "g_enum"]
       ELSE /\ gen' = [gen EXCEPT ![t].j = g.j + 1]
            /\ pc' = [pc EXCEPT ![t] = "g_param"]
            /\ UNCHANGED <<disk, faults>>
    /\ UNCHANGED bufVars
    /\ UNCHANGED <<phase, Options, staticEntries, paramEntries, sitemapMutex,
                   fileHandler, req, crashed, calls, lastSet>>

\* err := buffer.Flush(); if err != nil { return nil, err }
GenFlush(t) ==
    /\ Alive
    /\ pc[t] = "g_flush"
    /\ \E outcome \in OutcomesOf(~IsEmpty(gen[t].buffer.sitemap)) :
         LET f == Flush(gen[t].buffer, disk, outcome) IN
         /\ disk' = f.disk
         /\ faults' = Faults(outcome)
         /\ gen' = [gen EXCEPT ![t].buffer = f.b, ![t].err = f.err,
                               ![t].written = @ \cup f.created,
                               ![t].failed = @ \/ f.err]
         /\ pc' = [pc EXCEPT ![t] = IF f.err THEN "g_return" ELSE "g_index"]
    /\ UNCHANGED bufVars
    /\ UNCHANGED <<phase, Options, staticEntries, paramEntries, sitemapMutex,
                   fileHandler, req, crashed, calls, lastSet>>

\* fullLocations[i] = r.Options.Domain + r.Options.ServerPath + loc
fullLocations(Locations) ==
    [i \in 1..Len(Locations) |-> Options.Domain \o Options.ServerPath \o Locations[i]]

\* NewSitemapIndex(sitemapUrls).SitemapRefs, by Location
NewSitemapIndex(sitemapUrls) ==
    [i \in 1..Len(sitemapUrls) |-> EscapeString(sitemapUrls[i])]

\* index.WriteToFile(...); return append(buffer.Locations, path), nil
GenIndex(t) ==
    /\ Alive
    /\ pc[t] = "g_index"
    /\ \E outcome \in OutcomesOf(TRUE) :
         LET index == NewSitemapIndex(fullLocations(gen[t].buffer.Locations))
             w == writeToFileXML(disk, IndexName, index, outcome)
         IN
         /\ disk' = w.disk
         /\ faults' = Faults(outcome)
         /\ gen' = [gen EXCEPT ![t].err = w.err,
                               ![t].written = @ \cup w.created,
                               ![t].failed = @ \/ w.err,
                               ![t].files = IF w.err THEN <<>>
                                            ELSE Append(gen[t].buffer.Locations, IndexName)]
         /\ pc' = [pc EXCEPT ![t] = "g_return"]
    /\ UNCHANGED bufVars
    /\ UNCHANGED <<phase, Options, staticEntries, paramEntries, sitemapMutex,
                   fileHandler, req, crashed, calls, lastSet>>

\* The return of GenerateSitemaps: the deferred r.sitemapMutex.Unlock()
\* runs, and the caller has the result.
GenReturn(t) ==
    /\ Alive
    /\ pc[t] = "g_return"
    /\ sitemapMutex' = Unlock(sitemapMutex)
    /\ lastSet' = IF gen[t].err THEN lastSet ELSE gen[t].files
    /\ IF t \in Gens
       THEN /\ pc' = [pc EXCEPT ![t] = "idle"]
            /\ req' = req
       ELSE /\ pc' = [pc EXCEPT ![t] = "after_gen"]
            /\ req' = [req EXCEPT ![t].how = IF gen[t].err THEN "err" ELSE "ok"]
    /\ gen' = [gen EXCEPT ![t] = NoGen]
    /\ UNCHANGED bufVars
    /\ UNCHANGED <<phase, Options, staticEntries, paramEntries, fileHandler,
                   disk, crashed, calls, faults>>

(***************************************************************************)
(* sitemapHandler.ServeHTTP.  Router.sitemapMutex is a sync.RWMutex value, *)
(* so "mutex := sh.router.sitemapMutex" copies it: every call locks and    *)
(* unlocks its own copy.  The copy reads the fields w and readerCount      *)
(* without synchronization, so it may see them on both sides of a Lock or  *)
(* Unlock of the router's mutex.                                           *)
(***************************************************************************)
\* mutex := sh.router.sitemapMutex, the field w
CopyW(r) ==
    /\ Alive
    /\ pc[r] = "idle"
    /\ r \in Reqs
    /\ req' = [req EXCEPT ![r].mutex.w = sitemapMutex.w,
                          ![r].late = fileHandler]
    /\ pc' = [pc EXCEPT ![r] = "copy"]
    /\ UNCHANGED bufVars
    /\ UNCHANGED <<phase, Options, staticEntries, paramEntries, sitemapMutex,
                   fileHandler, disk, gen, crashed, calls, faults, lastSet>>

\* mutex := sh.router.sitemapMutex, the field readerCount
CopyReaderCount(r) ==
    /\ Alive
    /\ pc[r] = "copy"
    /\ req' = [req EXCEPT ![r].mutex.writer = sitemapMutex.writer,
                          ![r].mutex.readers = sitemapMutex.readers]
    /\ pc' = [pc EXCEPT ![r] = "rlock"]
    /\ UNCHANGED bufVars
    /\ UNCHANGED <<phase, Options, staticEntries, paramEntries, sitemapMutex,
                   fileHandler, disk, gen, crashed, calls, faults, lastSet>>

\* mutex.RLock(); defer mutex.RUnlock()
FirstRLock(r) ==
    /\ Alive
    /\ pc[r] = "rlock"
    /\ CanRLock(req[r].mutex)
    /\ req' = [req EXCEPT ![r].mutex = RLock(@)]
    /\ pc' = [pc EXCEPT ![r] = "check1"]
    /\ UNCHANGED bufVars
    /\ UNCHANGED <<phase, Options, staticEntries, paramEntries, sitemapMutex,
                   fileHandler, disk, gen, crashed, calls, faults, lastSet>>

\* if sh.fileHandler == nil {
FirstCheck(r) ==
    /\ Alive
    /\ pc[r] = "check1"
    /\ pc' = [pc EXCEPT ![r] = IF ~fileHandler THEN "runlock" ELSE "check3"]
    /\ UNCHANGED bufVars
    /\ UNCHANGED <<phase, Options, staticEntries, paramEntries, sitemapMutex,
                   fileHandler, disk, req, gen, crashed, calls, faults, lastSet>>

\* mutex.RUnlock()
ReleaseShared(r) ==
    /\ Alive
    /\ pc[r] = "runlock"
    /\ IF RUnlockFatal(req[r].mutex)
       THEN crashed' = TRUE /\ UNCHANGED <<req, pc>>
       ELSE /\ req' = [req EXCEPT ![r].mutex = RUnlock(@)]
            /\ pc' = [pc EXCEPT ![r] = "lock"]
            /\ crashed' = crashed
    /\ UNCHANGED bufVars
    /\ UNCHANGED <<phase, Options, staticEntries, paramEntries, sitemapMutex,
                   fileHandler, disk, gen, calls, faults, lastSet>>

\* mutex.Lock()
AcquireExclusive(r) ==
    /\ Alive
    /\ pc[r] = "lock"
    /\ CanLock(req[r].mutex)
    /\ req' = [req EXCEPT ![r].mutex = Lock(@)]
    /\ pc' = [pc EXCEPT ![r] = "check2"]
    /\ UNCHANGED bufVars
    /\ UNCHANGED <<phase, Options, staticEntries, paramEntries, sitemapMutex,
                   fileHandler, disk, gen, crashed, calls, faults, lastSet>>

\* the second: if sh.fileHandler == nil {
SecondCheck(r) ==
    /\ Alive
    /\ pc[r] = "check2"
    /\ pc' = [pc EXCEPT ![r] = IF ~fileHandler THEN "open" ELSE "unlock"]
    /\ UNCHANGED bufVars
    /\ UNCHANGED <<phase, Options, staticEntries, paramEntries, sitemapMutex,
                   fileHandler, disk, req, gen, crashed, calls, faults, lastSet>>

\* _, err := os.Open(CachePath + "sitemapindex.xml"); if err != nil {
\*     os.MkdirAll(...); _, err = sh.router.GenerateSitemaps()
OpenIndex(r) ==
    /\ Alive
    /\ pc[r] = "open"
    /\ IF IndexName \in DOMAIN disk
       THEN /\ req' = [req EXCEPT ![r].how = "found"]
            /\ pc' = [pc EXCEPT ![r] = "set_fh"]
       ELSE /\ req' = [req EXCEPT ![r].how = "called"]
            /\ pc' = [pc EXCEPT ![r] = "g_lock"]
    /\ UNCHANGED bufVars
    /\ UNCHANGED <<phase, Options, staticEntries, paramEntries, sitemapMutex,
                   fileHandler, disk, gen, crashed, calls, faults, lastSet>>

\* AfterGenerate that drops the error of GenerateSitemaps.
AfterGenerate_DropsError(r) ==
    /\ Alive
    /\ pc[r] = "after_gen"
    /\ crashed' = crashed
    /\ pc' = [pc EXCEPT ![r] = "set_fh"]
    /\ UNCHANGED bufVars
    /\ UNCHANGED <<phase, Options, staticEntries, paramEntries, sitemapMutex,
                   fileHandler, disk, req, gen, calls, faults, lastSet>>

\* if err != nil { panic(err) }: the panic runs the deferred mutex.RUnlock()
\* while the copy is held exclusively, and then leaves ServeHTTP.
AfterGenerate(r) ==
    /\ Alive
    /\ pc[r] = "after_gen"
    /\ IF req[r].how = "err"
       THEN /\ crashed' = RUnlockFatal(req[r].mutex)
            /\ pc' = [pc EXCEPT ![r] = "panicked"]
       ELSE /\ crashed' = crashed
            /\ pc' = [pc EXCEPT ![r] = "set_fh"]
    /\ UNCHANGED bufVars
    /\ UNCHANGED <<phase, Options, staticEntries, paramEntries, sitemapMutex,
                   fileHandler, disk, req, gen, calls, faults, lastSet>>

\* sh.fileHandler = http.StripPrefix(ServerPath, http.FileServer(http.Dir(CachePath)))
SetFileHandler(r) ==
    /\ Alive
    /\ pc[r] = "set_fh"
    /\ fileHandler' = TRUE
    /\ pc' = [pc EXCEPT ![r] = "unlock"]
    /\ UNCHANGED bufVars
    /\ UNCHANGED <<phase, Options, staticEntries, paramEntries, sitemapMutex,
                   disk, req, gen, crashed, calls, faults, lastSet>>

\* mutex.Unlock()
ReleaseExclusive(r) ==
    /\ Alive
    /\ pc[r] = "unlock"
    /\ req' = [req EXCEPT ![r].mutex = Unlock(@)]
    /\ pc' = [pc EXCEPT ![r] = "rlock2"]
    /\ UNCHANGED bufVars
    /\ UNCHANGED <<phase, Options, staticEntries, paramEntries, sitemapMutex,
                   fileHandler, disk, gen, crashed, calls, faults, lastSet>>

\* mutex.RLock()
SecondRLock(r) ==
    /\ Alive
    /\ pc[r] = "rlock2"
    /\ CanRLock(req[r].mutex)
    /\ req' = [req EXCEPT ![r].mutex = RLock(@)]
    /\ pc' = [pc EXCEPT ![r] = "check3"]
    /\ UNCHANGED bufVars
    /\ UNCHANGED <<phase, Options, staticEntries, paramEntries, sitemapMutex,
                   fileHandler, disk, gen, crashed, calls, faults, lastSet>>

\* if sh.fileHandler != nil {
ThirdCheck(r) ==
    /\ Alive
    /\ pc[r] = "check3"
    /\ pc' = [pc EXCEPT ![r] = IF fileHandler THEN "serve" ELSE "defer"]
    /\ UNCHANGED bufVars
    /\ UNCHANGED <<phase, Options, staticEntries, paramEntries, sitemapMutex,
                   fileHandler, disk, req, gen, crashed, calls, faults, lastSet>>

\* The names a request asks for: the index or the first sitemap.
Requestable == {IndexName, SitemapName(1)}

\* http.FileServer on the cache directory, asked for the file name.
FileServer(d, name) ==
    IF name \notin DOMAIN d THEN "404"
    ELSE IF d[name].complete THEN "200" ELSE "partial"

\* sh.fileHandler.ServeHTTP(w, r): the file server answers with the file of
\* the cache directory the request names, or with "not found".
Serve(r) ==
    /\ Alive
    /\ pc[r] = "serve"
    /\ \E name \in Requestable :
         req' = [req EXCEPT ![r].served = FileServer(disk, name)]
    /\ pc' = [pc EXCEPT ![r] = "defer"]
    /\ UNCHANGED bufVars
    /\ UNCHANGED <<phase, Options, staticEntries, paramEntries, sitemapMutex,
                   fileHandler, disk, gen, crashed, calls, faults, lastSet>>

\* the deferred mutex.RUnlock() of a call that returns
Return(r) ==
    /\ Alive
    /\ pc[r] = "defer"
    /\ IF RUnlockFatal(req[r].mutex)
       THEN crashed' = TRUE /\ UNCHANGED <<req, pc>>
       ELSE /\ req' = [req EXCEPT ![r].mutex = RUnlock(@)]
            /\ pc' = [pc EXCEPT ![r] = "done"]
            /\ crashed' = crashed
    /\ UNCHANGED bufVars
    /\ UNCHANGED <<phase, Options, staticEntries, paramEntries, sitemapMutex,
                   fileHandler, disk, gen, calls, faults, lastSet>>

Next ==
    \/ SetServerPath
    \/ Register
    \/ RegisterParam
    \/ HandleSitemaps
    \/ \E t \in Threads :
         \/ GenCall(t)
         \/ GenLock(t)
         \/ GenStatic(t)
         \/ GenParam(t)
         \/ EnumFails(t)
         \/ GenEnum(t)
         \/ GenFlush(t)
         \/ GenIndex(t)
         \/ GenReturn(t)
    \/ \E r \in Reqs :
         \/ CopyW(r)
         \/ CopyReaderCount(r)
         \/ FirstRLock(r)
         \/ FirstCheck(r)
         \/ ReleaseShared(r)
         \/ AcquireExclusive(r)
         \/ SecondCheck(r)
         \/ OpenIndex(r)
         \/ AfterGenerate(r)
         \/ SetFileHandler(r)
         \/ ReleaseExclusive(r)
         \/ SecondRLock(r)
         \/ ThirdCheck(r)
         \/ Serve(r)
         \/ Return(r)

Spec == Init /\ [][Next]_vars

\* A step of a call of GenerateSitemaps or ServeHTTP that has begun.
Running(t) ==
    \/ GenLock(t) \/ GenStatic(t) \/ GenParam(t) \/ GenEnum(t)
    \/ GenFlush(t) \/ GenIndex(t) \/ GenReturn(t)
    \/ /\ t \in Reqs
       /\ \/ CopyReaderCount(t) \/ FirstRLock(t) \/ FirstCheck(t)
          \/ ReleaseShared(t) \/ AcquireExclusive(t) \/ SecondCheck(t)
          \/ OpenIndex(t) \/ AfterGenerate(t) \/ SetFileHandler(t)
          \/ ReleaseExclusive(t) \/ SecondRLock(t) \/ ThirdCheck(t)
          \/ Serve(t) \/ Return(t)

\* The scheduler of the Go runtime lets every goroutine that can run take
\* its next step; an enumerator that is called returns.
FairSpec == Spec /\ \A t \in Threads : WF_vars(Running(t))

(***************************************************************************)
(* A Buffer used by itself: the package exports NewBuffer, AddEntry and    *)
(* Flush, and an application may call them in any order.  The entry of the *)
(* n-th call is entry n.                                                   *)
(***************************************************************************)
BufEntry(n) == Entry(<<"/e">> \o Itoa(n), NewOptions.DefaultPriority)

\* buf.AddEntry(e)
CallAddEntry ==
    /\ ops < MaxOps
    /\ \E outcome \in Outcomes :
         LET e == BufEntry(ops + 1)
             a == AddEntry(buf, store, e, outcome)
         IN  /\ buf' = a.b
             /\ store' = a.disk
             /\ added' = IF a.err THEN added ELSE Append(added, e)
             /\ plain' = (plain /\ ~a.err)
             /\ last' = [op |-> "AddEntry", before |-> buf, err |-> a.err,
                         created |-> a.created]
    /\ ops' = ops + 1
    /\ UNCHANGED routerVars

\* buf.Flush()
CallFlush ==
    /\ ops < MaxOps
    /\ \E outcome \in Outcomes :
         LET f == Flush(buf, store, outcome)
         IN  /\ buf' = f.b
             /\ store' = f.disk
             /\ last' = [op |-> "Flush", before |-> buf, err |-> f.err,
                         created |-> f.created]
    /\ plain' = FALSE
    /\ ops' = ops + 1
    /\ UNCHANGED <<added, routerVars>>

BufNext == CallAddEntry \/ CallFlush

BufSpec == Init /\ [][BufNext]_vars

(***************************************************************************)
(* Properties.                                                             *)
(***************************************************************************)
Range(q) == {q[i] : i \in 1..Len(q)}

\* A request is in the serving section of ServeHTTP.
Serving(r) == pc[r] = "serve"

\* C1: no read request is in its serving section while a generation is
\* writing files, so that a read sees the files of one whole generation.
C1_NoReadDuringGeneration ==
    \A r \in Reqs : Serving(r) => ~\E t \in Threads : InGeneration(t)

\* The request has run GenerateSitemaps, or is running it.
LazyRan(r) == req[r].how \in {"ok", "err"} \/ InGeneration(r)

\* C2: of the requests that find the gate not initialized, one runs the
\* generation; once it has succeeded no other request runs it again.
C2_LazyGenerationOnce ==
    \A r \in Reqs, u \in Reqs :
        r # u /\ req[r].how = "ok" => ~LazyRan(u)

\* C3: at most one thread is inside the body of GenerateSitemaps, and while
\* one is, no other caller can enter it.
C3_OneGenerationAtATime ==
    /\ Cardinality({t \in Threads : InGeneration(t)}) <= 1
    /\ \A t \in Threads : InGeneration(t) =>
           \A u \in Threads \ {t} : ~ENABLED GenLock(u)

\* C3, its case: one thread generates while another waits for the lock.
C3_Witness ==
    \E t \in Threads, u \in Threads :
        t # u /\ InGeneration(t) /\ pc[u] = "g_lock" /\ gen[t].written # {}

\* C4: a generation that fails on the lazy path of a request does not end
\* the process: the request is answered with a failure.
C4_LazyFailureKeepsProcess ==
    \A r \in Reqs : req[r].how = "err" /\ pc[r] # "after_gen" => ~crashed

\* C5: when a generation returns an error after an earlier one has succeeded,
\* it has written none of the files of the earlier one, which are the files
\* served.
C5_FailedAttemptNotServed ==
    \A t \in Threads :
        pc[t] = "g_return" /\ gen[t].err /\ lastSet # <<>> =>
            gen[t].written \cap Range(lastSet) = {}

\* C6: once anything GenerateSitemaps calls has reported an error, the call
\* is at its return, with the error.
C6_FirstErrorAborts ==
    \A t \in Threads :
        InGeneration(t) /\ gen[t].failed => pc[t] = "g_return" /\ gen[t].err

\* The request has left the slow path of ServeHTTP with fileHandler set.
PastSetFileHandler(r) ==
    pc[r] \in {"unlock", "rlock2", "check3", "serve", "defer", "done"}

\* C7, as claimed: a request that finds the gate not ready under the
\* exclusive lock sets fileHandler only after its own call of
\* GenerateSitemaps has succeeded.
C7_ReadyOnlyByGeneration ==
    \A r \in Reqs : pc[r] = "set_fh" => req[r].how = "ok"

\* C7, amended: such a request sets fileHandler only after its own call of
\* GenerateSitemaps has succeeded, or after it has found sitemapindex.xml in
\* the cache directory, in which case it has not called GenerateSitemaps;
\* and fileHandler is set by such a request only.
C7_ReadyByGenerationOrIndex ==
    /\ \A r \in Reqs :
          pc[r] = "set_fh" =>
              \/ req[r].how = "ok"
              \/ req[r].how = "found" /\ IndexName \in DOMAIN disk
    /\ fileHandler =>
          \E r \in Reqs : PastSetFileHandler(r) /\ req[r].how \in {"ok", "found"}

\* C7, its case: a request is ready without a generation of its own,
\* because the index was there.
C7_Witness ==
    \E r \in Reqs : fileHandler /\ pc[r] = "serve" /\ req[r].how = "found"

\* How often the call of t has invoked the enumerators when it has reached
\* the enumerator at position j: once each up to j, not at all after it.
InvokedUpTo(j) == [x \in 1..Len(paramEntries) |-> IF x <= j THEN 1 ELSE 0]

\* C8, as claimed: every call of GenerateSitemaps holds the lock until it
\* returns and has then invoked each enumerator exactly once.
C8_EveryEnumeratorOnce ==
    \A t \in Threads :
        pc[t] = "g_return" =>
            /\ sitemapMutex.w /\ sitemapMutex.writer
            /\ \A x \in 1..Len(paramEntries) : gen[t].invoked[x] = 1

\* C8, amended: every call of GenerateSitemaps, whatever fileHandler is,
\* holds the lock from its start until it returns, invokes the enumerators
\* in registration order and none twice; it has invoked each exactly once
\* when it returns without error, and none after the one that failed when
\* it returns an error.
C8_EnumeratorsOnceUntilError ==
    \A t \in Threads :
        InGeneration(t) =>
            /\ sitemapMutex.w /\ sitemapMutex.writer
            /\ \A x \in 1..Len(paramEntries) : gen[t].invoked[x] <= 1
            /\ pc[t] \in {"g_flush", "g_index"} \/ (pc[t] = "g_return" /\ ~gen[t].err)
                  => gen[t].invoked = InvokedUpTo(Len(paramEntries))
            /\ pc[t] = "g_return" /\ gen[t].err
                  => gen[t].invoked = InvokedUpTo(gen[t].j)

\* C8, its case: a regeneration while the gate is ready returns without
\* error, with two enumerators registered.
C8_Witness ==
    \E t \in Gens :
        /\ fileHandler /\ pc[t] = "g_return" /\ ~gen[t].err
        /\ Len(paramEntries) = 2 /\ gen[t].invoked = <<1, 1>>

\* The sitemap index that GenerateSitemaps is claimed to write.
ClaimedIndex(Locations) ==
    [i \in 1..Len(Locations) |-> Options.Domain \o Options.ServerPath \o Locations[i]]

\* C9: when GenerateSitemaps returns without error, every page it has
\* flushed is on disk, the index lists domain + server path + file name of
\* each, in flush order and nothing else, and the list returned is the file
\* names of the pages followed by sitemapindex.xml.
C9_IndexListsPages ==
    \A t \in Threads :
        pc[t] = "g_return" /\ ~gen[t].err =>
            /\ Range(gen[t].buffer.Locations) \subseteq DOMAIN disk
            /\ IndexName \in DOMAIN disk
            /\ disk[IndexName].data = ClaimedIndex(gen[t].buffer.Locations)
            /\ gen[t].files = Append(gen[t].buffer.Locations, IndexName)

RECURSIVE Pages(_, _)
\* The entries of the files named by Locations, one page after the other.
Pages(d, Locations) ==
    IF Locations = <<>> THEN <<>>
    ELSE d[Head(Locations)].data \o Pages(d, Tail(Locations))

RECURSIVE EntriesOf(_)
\* The entries of parameterized routes, source by source, value by value.
EntriesOf(entries) ==
    IF entries = <<>> THEN <<>>
    ELSE LET e == Head(entries) IN
         [k \in 1..Len(e.Enumerator) |->
             Entry(fullLocation(RouteURL(e.Route, e.Enumerator[k]).url), e.Priority)]
         \o EntriesOf(Tail(entries))

\* The entries a generation is claimed to write.
ClaimedEntries ==
    [i \in 1..Len(staticEntries) |->
        Entry(fullLocation(staticEntries[i].Location), staticEntries[i].Priority)]
    \o EntriesOf(paramEntries)

\* C10: when GenerateSitemaps returns without error, its pages, read in
\* order, hold the static routes in registration order and then the entries
\* of each parameterized route, in registration order and callback order.
C10_EntriesInOrder ==
    \A t \in Threads :
        pc[t] = "g_return" /\ ~gen[t].err =>
            Pages(disk, gen[t].buffer.Locations) = ClaimedEntries

Ceil(n, c) == (n + c - 1) \div c

RECURSIVE Callbacks(_)
\* The number of callbacks of the enumerators of entries.
Callbacks(entries) ==
    IF entries = <<>> THEN 0
    ELSE Len(Head(entries).Enumerator) + Callbacks(Tail(entries))

\* The number of entries the registered routes supply to a generation.
Supplied == Len(staticEntries) + Callbacks(paramEntries)

\* The call of t returns without error and nothing it called has failed.
Succeeded(t) == pc[t] = "g_return" /\ ~gen[t].err /\ ~gen[t].failed

\* C11: a generation without a storage failure that is supplied n entries
\* produces ceil(n / Capacity) pages; with n = 0 it produces no page, an
\* empty Locations and an index without a reference.
C11_PageCount ==
    \A t \in Threads :
        Succeeded(t) =>
            /\ Len(gen[t].buffer.Locations) = Ceil(Supplied, Capacity)
            /\ Supplied = 0 =>
                  /\ gen[t].buffer.Locations = <<>>
                  /\ gen[t].buffer.count = 0
                  /\ disk[IndexName] = File(<<>>, TRUE)

\* C11, its case: a generation has succeeded with more entries than a page
\* holds, the last page not full.
C11_Witness ==
    \E t \in Threads :
        Succeeded(t) /\ Supplied > Capacity /\ Supplied % Capacity # 0

\* C11, the case of no entry at all.
C11_NoEntry == \E t \in Threads : Succeeded(t) /\ Supplied = 0

\* The names sitemap_1.xml .. sitemap_k.xml.
Numbered(k) == [i \in 1..k |-> SitemapName(i)]

\* C12: whatever calls of AddEntry and Flush a Buffer has had, failed writes
\* included, the pages it has recorded are sitemap_1.xml .. sitemap_k.xml in
\* this order, k being their number.
C12_ContiguousPages == buf.Locations = Numbered(Len(buf.Locations))

\* The page that holds entry n: the n-th of the recorded pages, or the
\* current page when n is their number plus one.
PageOf(n) ==
    IF n <= Len(buf.Locations) THEN store[buf.Locations[n]].data
    ELSE buf.sitemap.Entries

\* The number of pages of buf, the current one included if it has entries.
PageCount ==
    Len(buf.Locations) + (IF IsEmpty(buf.sitemap) THEN 0 ELSE 1)

\* C13: the current page and every page flushed hold at most Capacity
\* entries; and as long as only AddEntry was called and no write has failed,
\* entry k is in page ceil(k / Capacity), at the place it was added: the
\* first Capacity entries are in page 1, the next one is the first of page 2.
C13_PageHoldsCapacity ==
    /\ Len(buf.sitemap.Entries) <= Capacity
    /\ \A name \in DOMAIN store : Len(store[name].data) <= Capacity
    /\ plain =>
          /\ PageCount = Ceil(ops, Capacity)
          /\ \A k \in 1..ops :
                LET page == PageOf(Ceil(k, Capacity))
                    at   == ((k - 1) % Capacity) + 1
                IN  at <= Len(page) /\ page[at] = BufEntry(k)

\* C13, its case: entry Capacity + 1 has been added after Capacity entries,
\* page 1 is flushed and the entry is the first one of page 2.
C13_Witness ==
    /\ plain /\ ops = Capacity + 1
    /\ buf.Locations = <<SitemapName(1)>>
    /\ buf.sitemap.Entries = <<BufEntry(Capacity + 1)>>
    /\ last.op = "AddEntry" /\ last.created = {SitemapName(1)}

\* C14: a Flush of a Buffer whose current page is nil or has no entry has
\* created no file, has returned no error and has left the page counter and
\* Locations as they were, whatever a write would have done.
C14_FlushOfEmptyIsNoOp ==
    last.op = "Flush" /\ IsEmpty(last.before.sitemap) =>
        /\ last.created = {}
        /\ ~last.err
        /\ buf.count = last.before.count
        /\ buf.Locations = last.before.Locations
        /\ IsEmpty(buf.sitemap)

\* C14, its case: Flush of a Buffer that has just flushed a page.
C14_Witness ==
    /\ last.op = "Flush" /\ IsEmpty(last.before.sitemap)
    /\ last.before.count > 0 /\ last.before.Locations # <<>>

\* C15: when the generation a request has run has failed, the request leaves
\* no lock held, fileHandler is not set by it, and a request that comes next
\* can run, to invoke the generation again.
C15_FailedLazyIsRetried ==
    \A r \in Reqs :
        pc[r] = "panicked" =>
            /\ ~req[r].mutex.w /\ ~req[r].mutex.writer
            /\ (\A u \in Reqs : req[u].how \notin {"ok", "found"}) => ~fileHandler
            /\ \A u \in Reqs \ {r} : pc[u] = "idle" => ENABLED CopyW(u)

\* Where a call of ServeHTTP is when it serves without the slow path.
FastPath == {"copy", "rlock", "check1", "check3", "serve", "defer", "done"}

\* Once fileHandler is set, a request that begins finds it set, calls no
\* generation and takes no exclusive lock, and serves under a shared hold.
ReadyStaysReady ==
    \A r \in Reqs :
        req[r].late =>
            /\ fileHandler
            /\ pc[r] \in FastPath /\ req[r].how = "none"
            /\ pc[r] \in {"check3", "serve", "defer"} =>
                  req[r].mutex.readers = 1
            /\ pc[r] = "done" => req[r].served # "none"

\* C16: once fileHandler is set it stays set; a request that begins later
\* calls no generation and takes no exclusive lock, and it is served, from
\* the files, under a shared hold: its RLock is not one that waits forever.
C16_ReadyServesLaterReads ==
    /\ ReadyStaysReady
    /\ \A r \in Reqs :
          req[r].late /\ pc[r] = "rlock" => CanRLock(req[r].mutex)

\* C17: a generation that returns without error after an earlier one has
\* done so, the routes being the same, returns the same list of file names,
\* so the same number of pages, numbered from 1.
C17_SameFilesAgain ==
    \A t \in Threads :
        pc[t] = "g_return" /\ ~gen[t].err /\ lastSet # <<>> =>
            /\ gen[t].files = lastSet
            /\ gen[t].buffer.Locations = Numbered(Len(gen[t].buffer.Locations))

\* C18: when a generation returns without error with k pages after an
\* earlier one that returned m > k pages, the files of the earlier one are
\* still there, and sitemap_(k+1).xml .. sitemap_m.xml are neither written
\* by the later generation nor listed in its index.
C18_StalePagesKept ==
    \A t \in Threads :
        LET k == Len(gen[t].buffer.Locations)
            m == Len(lastSet) - 1
        IN  pc[t] = "g_return" /\ ~gen[t].err /\ m > k =>
                /\ Range(lastSet) \subseteq DOMAIN disk
                /\ \A n \in (k + 1)..m :
                      /\ SitemapName(n) \notin gen[t].written
                      /\ SitemapName(n) \notin Range(gen[t].buffer.Locations)

\* C19: every call of ServeHTTP and of GenerateSitemaps that has begun
\* returns, as long as the process lives: no call waits for a lock forever.
C19_EveryCallReturns ==
    \A t \in Threads :
        (pc[t] # "idle") ~> (pc[t] \in {"idle", "done"} \/ crashed)

\* C20: whatever calls of AddEntry and Flush a Buffer has had, failed writes
\* included, the pages it has recorded, each written whole, followed by its
\* current page hold the entries whose AddEntry returned nil, in the order
\* of the calls, and no other entry.
C20_NoEntryLostOrDuplicated ==
    /\ \A i \in 1..Len(buf.Locations) :
          buf.Locations[i] \in DOMAIN store /\ store[buf.Locations[i]].complete
    /\ Pages(store, buf.Locations) \o buf.sitemap.Entries = added

\* C20, its case: an AddEntry has just returned an error, after a page was
\* recorded and with a full page in the buffer.
C20_Witness ==
    /\ last.op = "AddEntry" /\ last.err
    /\ buf.Locations # <<>> /\ IsFull(buf.sitemap)
    /\ Len(added) = Len(Pages(store, buf.Locations)) + Capacity

\* The releases of ServeHTTP on the paths without a panic: RUnlock at a
\* shared hold, Unlock at an exclusive hold, nothing held at the return.
ReleasesMatchWithoutPanic ==
    \A r \in Reqs :
        /\ pc[r] \in {"runlock", "defer"} => ~RUnlockFatal(req[r].mutex)
        /\ pc[r] = "unlock" => req[r].mutex.w /\ req[r].mutex.writer
        /\ pc[r] = "done" => req[r].mutex.readers = 0 /\ ~req[r].mutex.writer

\* C21: on every path through ServeHTTP every release finds the lock held
\* in its mode, the deferred RUnlock that runs when the generation has
\* failed included, and the call ends with the lock held in no mode.
C21_LockDiscipline ==
    /\ ReleasesMatchWithoutPanic
    /\ \A r \in Reqs :
          /\ pc[r] = "after_gen" /\ req[r].how = "err" =>
                ~RUnlockFatal(req[r].mutex)
          /\ pc[r] = "panicked" =>
                req[r].mutex.readers = 0 /\ ~req[r].mutex.writer

=============================================================================
